---- MODULE Spec2Model ----
(***************************************************************************)
(* Snapshot reconciliation of the Sankhya mirror tables (AS_FINANCEIRO,    *)
(* AS_EXCECAO_PRECO).  The two services are structurally identical; the    *)
(* model follows the Financeiro service and abstracts the business key     *)
(* (NUFIN, or CODPROD/NUTAB/CODLOCAL) to a value of Keys.                   *)
(*                                                                         *)
(* Database semantics assumed for oracledb: statements executed with       *)
(* autoCommit:false change only the session's view (sessao); commit makes  *)
(* the session's view the committed table (tabela); a statement or commit  *)
(* that raises changes nothing; rollback, or closing the connection,       *)
(* discards the session's uncommitted changes.                             *)
(***************************************************************************)
EXTENDS Integers, Sequences, FiniteSets, TLC

\* ---- bounds ----
MaxLen == 2

\* amounts of the model: alto * 10^(MaxDigits-2) + centavos / 100, with
\* alto in -MaxAlto..MaxAlto and centavos in -MaxCentavos..MaxCentavos
MaxAlto == 2
MaxCentavos == 2

\* CURRENT_TIMESTAMP values of the statements on one row: 1..MaxAgora
MaxAgora == 4

\* default of the parameter maxDigits of validarValorNumerico
MaxDigits == 15

\* ID_SISTEMA values and business keys present in the model
Systems == {1, 2}
Keys == {1, 2}

VARIABLES
  tabela,        \* committed mirror table: [Systems -> [Keys -> Seq(row)]]
  sessao,        \* the table as seen by the run's connection (open transaction)
  tabela0,       \* history: committed table when the current run started
  pc,            \* position of sincronizarFinanceiroPorEmpresa
  idSistema,     \* argument of the current run (0: none)
  resposta,      \* history: shape of the remote response of the current run
  financeiros,   \* decoded snapshot of the current run
  idx,           \* position of the for-of loop of upsertFinanceiro
  inseridos, atualizados, registrosDeletados,
  errosLinha,    \* history: loop positions whose upsert raised
  connection,    \* "undefined" | "open" | "closed" | "closeFailed"
  closeCalls,    \* history: connection.close() calls of the current run
  falha,         \* history: step whose exception reached the catch block
  passos,        \* history: steps executed by the current run, in order
  resultado,     \* SyncResult returned by the current run (NoResult: none yet)
  adquiridas,    \* history: connections getOracleConnection gave the current run
  liberadas,     \* history: connections of the current run that close() released
  logs,          \* Log Sink: entries the current run recorded in it
  logCalls,      \* history: salvarLogSincronizacao calls of the current run
  console,       \* errors the current run printed with console.error
  ultimo,        \* history: the run that returned last, until the next fetch
  repetida,      \* history: how the current snapshot relates to the last run's
  pcLote,        \* position of sincronizarTodasEmpresas
  conexaoLote,   \* the batch driver's own connection variable
  empresas,      \* rows returned by the directory query
  pos,           \* position of the for-of loop over empresas
  iniciadas,     \* history: systems whose run the batch driver started
  resultados,    \* SyncResults collected by the batch driver
  valor,         \* argument of a call of validarValorNumerico
  valorValidado, \* what that call returned
  dataStr,       \* argument of a call of parseDataSankhya
  date,          \* what that call returned
  entities,      \* responseBody.entities given to the decoding of lines 86-100
  cleanObjects,  \* the records decoded from it
  linha,         \* one row of AS_FINANCEIRO with its columns, or Inexistente
  agora,         \* CURRENT_TIMESTAMP of the next statement on that row
  registro       \* history: the record of the last upsert of that row

vars == <<tabela, sessao, tabela0, pc, idSistema, resposta, financeiros, idx,
          inseridos, atualizados, registrosDeletados, errosLinha, connection,
          closeCalls, falha, passos, resultado, adquiridas, liberadas, logs,
          logCalls, console, ultimo, repetida, pcLote, conexaoLote, empresas,
          pos, iniciadas, resultados, valor, valorValidado, dataStr, date,
          entities, cleanObjects, linha, agora, registro>>

runVars == <<pc, idSistema, resposta, financeiros, idx, inseridos, atualizados,
             registrosDeletados, errosLinha, connection, closeCalls, falha,
             passos, resultado, adquiridas, liberadas, logs, logCalls, console,
             tabela0, ultimo, repetida>>

loteVars == <<pcLote, conexaoLote, empresas, pos, iniciadas, resultados>>

\* calls of the sanitizers and of the decoder taken on their own
puroVars == <<valor, valorValidado, dataStr, date, entities, cleanObjects,
             linha, agora, registro>>

\* the statements on one row taken on their own
linhaVars == <<linha, agora, registro>>

\* no call of the function has been made / the call has not returned
NaoChamado == [tipo |-> "naoChamado"]

\* there is no row for the (system, key)
Inexistente == [tipo |-> "inexistente"]

NoResult == [success |-> FALSE, idSistema |-> 0, totalRegistros |-> 0,
             registrosInseridos |-> 0, registrosAtualizados |-> 0,
             registrosDeletados |-> 0, erro |-> "pendente"]

NoResposta == [entity |-> "none", metadata |-> FALSE]

NoUltimo == [idSistema |-> 0, financeiros |-> <<>>, limpo |-> FALSE]

TabelaVazia == [s \in Systems |-> [k \in Keys |-> <<>>]]

\* ---- sequences of bounded length ----
SeqAte(S, n) == UNION {[1..m -> S] : m \in 0..n}

RECURSIVE SemRepeticao(_)
SemRepeticao(q) ==
  IF Len(q) <= 1 THEN TRUE
  ELSE /\ \A j \in 2..Len(q) : q[j] # q[1]
       /\ SemRepeticao(Tail(q))

\* ---- rows ----
Linha(atual) == [SANKHYA_ATUAL |-> atual]

Ativas(linhas) == {j \in 1..Len(linhas) : linhas[j].SANKHYA_ATUAL = "S"}

ChavesAtivas(t, s) == {k \in Keys : Ativas(t[s][k]) # {}}

TotalAtivas(t, s) ==
  LET RECURSIVE Soma(_)
      Soma(ks) == IF ks = {} THEN 0
                  ELSE LET k == CHOOSE x \in ks : TRUE
                       IN Cardinality(Ativas(t[s][k])) + Soma(ks \ {k})
  IN Soma(Keys)

\* ---- remote responses: responseBody.entities of the loadRecords service ----
\* entity: "absent" (no entity member), "single" (one object), "array";
\* metadata: whether entities.metadata.fields.field is present;
\* valor: the business keys of the entities, in the order of the response.
Respostas ==
  [entity : {"absent"}, metadata : BOOLEAN, valor : {<<>>}]
    \cup [entity : {"single"}, metadata : BOOLEAN, valor : {<<k>> : k \in Keys}]
    \cup [entity : {"array"}, metadata : BOOLEAN, valor : SeqAte(Keys, MaxLen)]

Forma(r) == [entity |-> r.entity, metadata |-> r.metadata]

\* the remote call itself failed (axios rejected): no response
RespostaErro == [entity |-> "erro", metadata |-> FALSE]

\* faulty variant: a response without entities is rejected as an error
DecodificarSemVazio(r) ==
  IF r.entity = "absent" \/ ~r.metadata THEN [ok |-> FALSE, registros |-> <<>>]
  ELSE [ok |-> TRUE, registros |-> r.valor]

\* lines 80-103 of buscarFinanceiroSankhya: the decoded records, or a TypeError
\* when entities.metadata is dereferenced and absent
Decodificar(r) ==
  IF r.entity = "absent" THEN [ok |-> TRUE, registros |-> <<>>]
  ELSE IF ~r.metadata THEN [ok |-> FALSE, registros |-> <<>>]
  ELSE [ok |-> TRUE, registros |-> r.valor]

\* ---- SQL statements, as functions of the session's view ----
\* faulty variant: the UPDATE of marcarTodosComoNaoAtuais matches no row
MarcarNenhum(t, s) == t

\* faulty variant: the UPDATE has no ID_SISTEMA in its WHERE clause
MarcarTodosOsSistemas(t, s) ==
  [s2 \in Systems |-> [k \in Keys |->
     [j \in 1..Len(t[s2][k]) |-> [t[s2][k][j] EXCEPT !.SANKHYA_ATUAL = "N"]]]]

\* faulty variant: the rows of the system are deleted instead of marked
MarcarApagando(t, s) == [t EXCEPT ![s] = [k \in Keys |-> <<>>]]

MarcarTodosComoNaoAtuais(t, s) ==
  [t EXCEPT ![s] = [k \in Keys |->
     [j \in 1..Len(t[s][k]) |-> [t[s][k][j] EXCEPT !.SANKHYA_ATUAL = "N"]]]]

\* faulty variant: the count of the UPDATE is not read, 0 is reported
RowsAffectedZero(t, s) == 0

\* line 125: result.rowsAffected || 0
RowsAffected(t, s) == TotalAtivas(t, s)

\* faulty variant: the existence check never finds the row
ExisteNunca(t, s, k) == FALSE

Existe(t, s, k) == Len(t[s][k]) > 0

\* faulty variant: the UPDATE of an existing row leaves SANKHYA_ATUAL as it is
AtualizarSemReativar(t, s, k) == t

Atualizar(t, s, k) ==
  [t EXCEPT ![s][k] =
     [j \in 1..Len(t[s][k]) |-> [t[s][k][j] EXCEPT !.SANKHYA_ATUAL = "S"]]]

Inserir(t, s, k) == [t EXCEPT ![s][k] = Append(t[s][k], Linha("S"))]

\* faulty variant: the record is inserted whether or not its row exists
UpsertSempreInsere(t, s, k) == Inserir(t, s, k)

\* one iteration of upsertFinanceiro that does not raise
UpsertUm(t, s, k) ==
  IF Existe(t, s, k) THEN Atualizar(t, s, k) ELSE Inserir(t, s, k)

\* ---- SyncResult ----
ResultadoSucesso ==
  [success |-> TRUE, idSistema |-> idSistema, totalRegistros |-> Len(financeiros),
   registrosInseridos |-> inseridos, registrosAtualizados |-> atualizados,
   registrosDeletados |-> registrosDeletados, erro |-> "nenhum"]

\* faulty variant: the failure result reports how far the run had got
ResultadoFalhaComContagens ==
  [success |-> FALSE, idSistema |-> idSistema, totalRegistros |-> Len(financeiros),
   registrosInseridos |-> inseridos, registrosAtualizados |-> atualizados,
   registrosDeletados |-> registrosDeletados, erro |-> falha]

ResultadoFalha ==
  [success |-> FALSE, idSistema |-> idSistema, totalRegistros |-> 0,
   registrosInseridos |-> 0, registrosAtualizados |-> 0,
   registrosDeletados |-> 0, erro |-> falha]

\* the reconciler and the batch driver before any call
InitPrograma ==
  /\ tabela = TabelaVazia
  /\ sessao = TabelaVazia
  /\ tabela0 = TabelaVazia
  /\ pc = "idle"
  /\ idSistema = 0
  /\ resposta = NoResposta
  /\ financeiros = <<>>
  /\ idx = 1
  /\ inseridos = 0
  /\ atualizados = 0
  /\ registrosDeletados = 0
  /\ errosLinha = {}
  /\ connection = "undefined"
  /\ closeCalls = 0
  /\ falha = "nenhum"
  /\ passos = <<>>
  /\ resultado = NoResult
  /\ adquiridas = 0
  /\ liberadas = 0
  /\ logs = <<>>
  /\ logCalls = 0
  /\ console = {}
  /\ ultimo = NoUltimo
  /\ repetida = "nao"
  /\ pcLote = "idle"
  /\ conexaoLote = "undefined"
  /\ empresas = <<>>
  /\ pos = 1
  /\ iniciadas = <<>>
  /\ resultados = <<>>

Init ==
  /\ InitPrograma
  /\ valor = NaoChamado
  /\ valorValidado = NaoChamado
  /\ dataStr = NaoChamado
  /\ date = NaoChamado
  /\ entities = NaoChamado
  /\ cleanObjects = NaoChamado
  /\ linha = Inexistente
  /\ agora = 1
  /\ registro = NaoChamado

\* ---- sincronizarFinanceiroPorEmpresa ----
\* lines 302-307, entry of the function: the locals of a fresh invocation
Entrar(s) ==
  /\ pc' = "token"
  /\ idSistema' = s
  /\ resposta' = NoResposta
  /\ financeiros' = <<>>
  /\ idx' = 1
  /\ inseridos' = 0
  /\ atualizados' = 0
  /\ registrosDeletados' = 0
  /\ errosLinha' = {}
  /\ connection' = "undefined"
  /\ closeCalls' = 0
  /\ falha' = "nenhum"
  /\ passos' = <<>>
  /\ resultado' = NoResult
  /\ adquiridas' = 0
  /\ liberadas' = 0
  /\ logs' = <<>>
  /\ logCalls' = 0
  /\ repetida' = "nao"
  /\ tabela0' = tabela
  /\ sessao' = tabela
  /\ console' = {}
  /\ UNCHANGED <<tabela, ultimo, puroVars>>

\* an exception reaches the catch block of line 366
Lancar(passo) ==
  /\ falha' = passo
  /\ pc' = "catch"

\* line 317: obterToken(idSistema, true)
ObterToken ==
  /\ pc = "token"
  /\ passos' = Append(passos, "token")
  /\ \/ /\ pc' = "fetch"
        /\ UNCHANGED falha
     \/ Lancar("token")
  /\ UNCHANGED <<tabela, sessao, tabela0, idSistema, resposta, financeiros, idx,
                 inseridos, atualizados, registrosDeletados, errosLinha,
                 connection, closeCalls, resultado, adquiridas, liberadas, logs,
                 logCalls, ultimo, repetida, console, loteVars, puroVars>>

\* whether the snapshot s fetched now is the one the last run committed
Repeticao(fin) ==
  IF ultimo.idSistema = idSistema /\ ultimo.financeiros = fin
    THEN (IF ultimo.limpo THEN "limpa" ELSE "comErros")
    ELSE "nao"

\* lines 62-103: the remote call answers r, which is decoded
BuscarResposta(r) ==
  /\ resposta' = Forma(r)
  /\ IF Decodificar(r).ok
       THEN /\ financeiros' = Decodificar(r).registros
            /\ repetida' = Repeticao(Decodificar(r).registros)
            /\ pc' = "connect"
            /\ UNCHANGED falha
       ELSE /\ Lancar("decode")
            /\ UNCHANGED <<financeiros, repetida>>

\* faulty variant: the catch of the fetch returns no records instead of throwing
BuscarErroEngolido ==
  /\ resposta' = RespostaErro
  /\ financeiros' = <<>>
  /\ repetida' = Repeticao(<<>>)
  /\ pc' = "connect"
  /\ UNCHANGED falha

\* lines 105-108: the remote call raises and the error is thrown again
BuscarErro ==
  /\ resposta' = RespostaErro
  /\ Lancar("fetch")
  /\ UNCHANGED <<financeiros, repetida>>

\* line 318: buscarFinanceiroSankhya
BuscarFinanceiroSankhya ==
  /\ pc = "fetch"
  /\ passos' = Append(passos, "fetch")
  /\ ultimo' = NoUltimo
  /\ \/ \E r \in Respostas : BuscarResposta(r)
     \/ BuscarErro
  /\ UNCHANGED <<tabela, sessao, tabela0, idSistema, idx, inseridos, atualizados,
                 registrosDeletados, errosLinha, connection, closeCalls,
                 resultado, adquiridas, liberadas, logs, logCalls, console, loteVars, puroVars>>

\* line 319: getOracleConnection
GetOracleConnection ==
  /\ pc = "connect"
  /\ passos' = Append(passos, "connect")
  /\ \/ /\ connection' = "open"
        /\ adquiridas' = adquiridas + 1
        /\ pc' = "stale"
        /\ UNCHANGED falha
     \/ /\ Lancar("connect")
        /\ UNCHANGED <<connection, adquiridas>>
  /\ UNCHANGED <<tabela, sessao, tabela0, idSistema, resposta, financeiros, idx,
                 inseridos, atualizados, registrosDeletados, errosLinha,
                 closeCalls, resultado, liberadas, logs, logCalls, ultimo,
                 repetida, console, loteVars, puroVars>>

\* faulty variant: the stale-marking UPDATE runs with autoCommit
MarcarStaleAutoCommit ==
  /\ pc = "stale"
  /\ passos' = Append(passos, "stale")
  /\ \/ /\ sessao' = MarcarTodosComoNaoAtuais(sessao, idSistema)
        /\ tabela' = MarcarTodosComoNaoAtuais(sessao, idSistema)
        /\ registrosDeletados' = RowsAffected(sessao, idSistema)
        /\ pc' = "upsert"
        /\ UNCHANGED falha
     \/ /\ Lancar("stale")
        /\ UNCHANGED <<tabela, sessao, registrosDeletados>>
  /\ UNCHANGED <<tabela0, idSistema, resposta, financeiros, idx,
                 inseridos, atualizados, errosLinha, connection, closeCalls,
                 resultado, adquiridas, liberadas, logs, logCalls, ultimo,
                 repetida, console, loteVars, puroVars>>

\* line 321: marcarTodosComoNaoAtuais
MarcarStale ==
  /\ pc = "stale"
  /\ passos' = Append(passos, "stale")
  /\ \/ /\ sessao' = MarcarTodosComoNaoAtuais(sessao, idSistema)
        /\ registrosDeletados' = RowsAffected(sessao, idSistema)
        /\ pc' = "upsert"
        /\ UNCHANGED falha
     \/ /\ Lancar("stale")
        /\ UNCHANGED <<sessao, registrosDeletados>>
  /\ UNCHANGED <<tabela, tabela0, idSistema, resposta, financeiros, idx,
                 inseridos, atualizados, errosLinha, connection, closeCalls,
                 resultado, adquiridas, liberadas, logs, logCalls, ultimo,
                 repetida, console, loteVars, puroVars>>

\* faulty variant: the loop has no try/catch, a record's error ends the run
UpsertFinanceiroSemCatch ==
  /\ pc = "upsert"
  /\ idx <= Len(financeiros)
  /\ passos' = Append(passos, "upsert")
  /\ idx' = idx + 1
  /\ \/ /\ sessao' = UpsertUm(sessao, idSistema, financeiros[idx])
        /\ IF Existe(sessao, idSistema, financeiros[idx])
             THEN /\ atualizados' = atualizados + 1
                  /\ UNCHANGED inseridos
             ELSE /\ inseridos' = inseridos + 1
                  /\ UNCHANGED atualizados
        /\ UNCHANGED <<errosLinha, pc, falha>>
     \/ /\ errosLinha' = errosLinha \cup {idx}
        /\ Lancar("upsert")
        /\ UNCHANGED <<sessao, inseridos, atualizados>>
  /\ UNCHANGED <<tabela, tabela0, idSistema, resposta, financeiros,
                 registrosDeletados, connection, closeCalls, resultado,
                 adquiridas, liberadas, logs, logCalls, ultimo, repetida,
                 console, loteVars, puroVars>>

\* faulty variant: the existence check runs outside the transaction of the
\* run and sees only committed rows
UpsertFinanceiroOutraConexao ==
  /\ pc = "upsert"
  /\ idx <= Len(financeiros)
  /\ passos' = Append(passos, "upsert")
  /\ idx' = idx + 1
  /\ \/ /\ IF Existe(tabela, idSistema, financeiros[idx])
             THEN /\ sessao' = Atualizar(sessao, idSistema, financeiros[idx])
                  /\ atualizados' = atualizados + 1
                  /\ UNCHANGED inseridos
             ELSE /\ sessao' = Inserir(sessao, idSistema, financeiros[idx])
                  /\ inseridos' = inseridos + 1
                  /\ UNCHANGED atualizados
        /\ UNCHANGED errosLinha
     \/ /\ errosLinha' = errosLinha \cup {idx}
        /\ UNCHANGED <<sessao, inseridos, atualizados>>
  /\ UNCHANGED <<tabela, tabela0, pc, idSistema, resposta, financeiros,
                 registrosDeletados, connection, closeCalls, falha, resultado,
                 adquiridas, liberadas, logs, logCalls, ultimo, repetida,
                 console, loteVars, puroVars>>

\* lines 199-293, one iteration of the loop of upsertFinanceiro: the record's
\* statements succeed, or one of them raises and the catch of line 290 logs it
UpsertFinanceiro ==
  /\ pc = "upsert"
  /\ idx <= Len(financeiros)
  /\ passos' = Append(passos, "upsert")
  /\ idx' = idx + 1
  /\ \/ /\ sessao' = UpsertUm(sessao, idSistema, financeiros[idx])
        /\ IF Existe(sessao, idSistema, financeiros[idx])
             THEN /\ atualizados' = atualizados + 1
                  /\ UNCHANGED inseridos
             ELSE /\ inseridos' = inseridos + 1
                  /\ UNCHANGED atualizados
        /\ UNCHANGED errosLinha
     \/ /\ errosLinha' = errosLinha \cup {idx}
        /\ UNCHANGED <<sessao, inseridos, atualizados>>
  /\ UNCHANGED <<tabela, tabela0, pc, idSistema, resposta, financeiros,
                 registrosDeletados, connection, closeCalls, falha, resultado,
                 adquiridas, liberadas, logs, logCalls, ultimo, repetida,
                 console, loteVars, puroVars>>

\* faulty variant: the commit does not wait for the end of the upsert loop
CommitAntesDoFim ==
  /\ pc = "upsert"
  /\ passos' = Append(passos, "commit")
  /\ \/ /\ tabela' = sessao
        /\ pc' = "logSucesso"
        /\ UNCHANGED falha
     \/ /\ Lancar("commit")
        /\ UNCHANGED tabela
  /\ UNCHANGED <<sessao, tabela0, idSistema, resposta, financeiros, idx,
                 inseridos, atualizados, registrosDeletados, errosLinha,
                 connection, closeCalls, resultado, adquiridas, liberadas, logs,
                 logCalls, ultimo, repetida, console, loteVars, puroVars>>

\* line 324: connection.commit()
Commit ==
  /\ pc = "upsert"
  /\ idx > Len(financeiros)
  /\ passos' = Append(passos, "commit")
  /\ \/ /\ tabela' = sessao
        /\ pc' = "logSucesso"
        /\ UNCHANGED falha
     \/ /\ Lancar("commit")
        /\ UNCHANGED tabela
  /\ UNCHANGED <<sessao, tabela0, idSistema, resposta, financeiros, idx,
                 inseridos, atualizados, registrosDeletados, errosLinha,
                 connection, closeCalls, resultado, adquiridas, liberadas, logs,
                 logCalls, ultimo, repetida, console, loteVars, puroVars>>

\* lines 336-348 and 383-396: the payload given to salvarLogSincronizacao,
\* with the counts and the error of the SyncResult r
LogEntry(status, r) ==
  [idSistema |-> idSistema, status |-> status,
   total |-> r.totalRegistros, inseridos |-> r.registrosInseridos,
   atualizados |-> r.registrosAtualizados, deletados |-> r.registrosDeletados,
   erro |-> r.erro]

\* lines 334-351 and 381-399: the try block calls salvarLogSincronizacao, which
\* records the entry, or raises and records nothing; the catch only prints
SalvarLogSincronizacao(status, r) ==
  /\ logCalls' = logCalls + 1
  /\ \/ /\ logs' = Append(logs, LogEntry(status, r))
        /\ UNCHANGED console
     \/ /\ console' = console \cup {"log"}
        /\ UNCHANGED logs

\* faulty variant: the success log is not wrapped in its own try/catch, an
\* error of the Log Sink reaches the catch block of the run
LogSucessoSemTry ==
  /\ pc = "logSucesso"
  /\ passos' = Append(passos, "log")
  /\ logCalls' = logCalls + 1
  /\ \/ /\ logs' = Append(logs, LogEntry("SUCESSO", ResultadoSucesso))
        /\ resultado' = ResultadoSucesso
        /\ pc' = "finally"
        /\ UNCHANGED falha
     \/ /\ Lancar("log")
        /\ UNCHANGED <<logs, resultado>>
  /\ UNCHANGED <<tabela, sessao, tabela0, idSistema, resposta, financeiros, idx,
                 inseridos, atualizados, registrosDeletados, errosLinha,
                 connection, closeCalls, adquiridas, liberadas, ultimo,
                 repetida, console, loteVars, puroVars>>

\* lines 333-364: log of success, then the return statement
LogSucesso ==
  /\ pc = "logSucesso"
  /\ passos' = Append(passos, "log")
  /\ SalvarLogSincronizacao("SUCESSO", ResultadoSucesso)
  /\ resultado' = ResultadoSucesso
  /\ pc' = "finally"
  /\ UNCHANGED <<tabela, sessao, tabela0, idSistema, resposta, financeiros, idx,
                 inseridos, atualizados, registrosDeletados, errosLinha,
                 connection, closeCalls, falha, adquiridas, liberadas, ultimo,
                 repetida, loteVars, puroVars>>

\* lines 366-375: catch block; console.error of the error, then rollback when
\* a connection was acquired, its own error only printed
Catch ==
  /\ pc = "catch"
  /\ IF connection = "open"
       THEN \/ /\ sessao' = tabela
               /\ passos' = Append(passos, "rollback")
               /\ console' = console \cup {"sync"}
            \/ /\ passos' = Append(passos, "rollbackFailed")
               /\ console' = console \cup {"sync", "rollback"}
               /\ UNCHANGED sessao
       ELSE /\ console' = console \cup {"sync"}
            /\ UNCHANGED <<sessao, passos>>
  /\ pc' = "logFalha"
  /\ UNCHANGED <<tabela, tabela0, idSistema, resposta, financeiros, idx,
                 inseridos, atualizados, registrosDeletados, errosLinha,
                 connection, closeCalls, falha, resultado, adquiridas, liberadas,
                 logs, logCalls, ultimo, repetida, loteVars, puroVars>>

\* faulty variant: the catch block builds the failure result without logging it
LogFalhaSemLog ==
  /\ pc = "logFalha"
  /\ resultado' = ResultadoFalha
  /\ pc' = "finally"
  /\ UNCHANGED <<tabela, sessao, tabela0, idSistema, resposta, financeiros, idx,
                 inseridos, atualizados, registrosDeletados, errosLinha,
                 connection, closeCalls, falha, passos, adquiridas, liberadas,
                 logs, logCalls, ultimo, repetida, console, loteVars, puroVars>>

\* lines 380-413: log of failure, then the return statement
LogFalha ==
  /\ pc = "logFalha"
  /\ passos' = Append(passos, "log")
  /\ SalvarLogSincronizacao("FALHA", ResultadoFalha)
  /\ resultado' = ResultadoFalha
  /\ pc' = "finally"
  /\ UNCHANGED <<tabela, sessao, tabela0, idSistema, resposta, financeiros, idx,
                 inseridos, atualizados, registrosDeletados, errosLinha,
                 connection, closeCalls, falha, adquiridas, liberadas, ultimo,
                 repetida, loteVars, puroVars>>

\* what the next invocation can compare its snapshot with
Resumo ==
  IF resultado.success
    THEN [idSistema |-> idSistema, financeiros |-> financeiros,
          limpo |-> errosLinha = {}]
    ELSE NoUltimo

\* faulty variant: the connection is closed at the end of the try block only
FinallySoNoSucesso ==
  /\ pc = "finally"
  /\ IF connection = "open" /\ resultado.success
       THEN /\ closeCalls' = closeCalls + 1
            /\ passos' = Append(passos, "close")
            /\ \/ /\ connection' = "closed"
                  /\ liberadas' = liberadas + 1
                  /\ UNCHANGED console
               \/ /\ connection' = "closeFailed"
                  /\ console' = console \cup {"close"}
                  /\ UNCHANGED liberadas
       ELSE UNCHANGED <<connection, closeCalls, passos, liberadas, console>>
  /\ sessao' = tabela
  /\ ultimo' = Resumo
  /\ pc' = "returned"
  /\ UNCHANGED <<tabela, tabela0, idSistema, resposta, financeiros, idx,
                 inseridos, atualizados, registrosDeletados, errosLinha, falha,
                 resultado, adquiridas, logs, logCalls, repetida, loteVars, puroVars>>

\* faulty variant: close() is not wrapped in its own try/catch, its error
\* replaces the return value of the run
FinallySemTry ==
  /\ pc = "finally"
  /\ IF connection = "open"
       THEN /\ closeCalls' = closeCalls + 1
            /\ passos' = Append(passos, "close")
            /\ \/ /\ connection' = "closed"
                  /\ liberadas' = liberadas + 1
                  /\ UNCHANGED resultado
               \/ /\ connection' = "closeFailed"
                  /\ resultado' = NoResult
                  /\ UNCHANGED liberadas
       ELSE UNCHANGED <<connection, closeCalls, passos, liberadas, resultado>>
  /\ sessao' = tabela
  /\ ultimo' = NoUltimo
  /\ pc' = "returned"
  /\ UNCHANGED <<tabela, tabela0, idSistema, resposta, financeiros, idx,
                 inseridos, atualizados, registrosDeletados, errosLinha, falha,
                 adquiridas, logs, logCalls, repetida, console, loteVars,
                 puroVars>>

\* lines 415-423: finally block; the function returns when it ends.  Closing
\* the connection (or losing it) discards what the session left uncommitted.
Finally ==
  /\ pc = "finally"
  /\ IF connection = "open"
       THEN /\ closeCalls' = closeCalls + 1
            /\ passos' = Append(passos, "close")
            /\ \/ /\ connection' = "closed"
                  /\ liberadas' = liberadas + 1
                  /\ UNCHANGED console
               \/ /\ connection' = "closeFailed"
                  /\ console' = console \cup {"close"}
                  /\ UNCHANGED liberadas
       ELSE UNCHANGED <<connection, closeCalls, passos, liberadas, console>>
  /\ sessao' = tabela
  /\ ultimo' = Resumo
  /\ pc' = "returned"
  /\ UNCHANGED <<tabela, tabela0, idSistema, resposta, financeiros, idx,
                 inseridos, atualizados, registrosDeletados, errosLinha, falha,
                 resultado, adquiridas, logs, logCalls, repetida, loteVars, puroVars>>

\* a caller invokes sincronizarFinanceiroPorEmpresa(s)
ChamarPorEmpresa(s) ==
  /\ pc \in {"idle", "returned"}
  /\ pcLote = "idle"
  /\ Entrar(s)
  /\ UNCHANGED loteVars

\* the steps of one run, whoever called it
Executar ==
  \/ ObterToken
  \/ BuscarFinanceiroSankhya
  \/ GetOracleConnection
  \/ MarcarStale
  \/ UpsertFinanceiro
  \/ Commit
  \/ LogSucesso
  \/ Catch
  \/ LogFalha
  \/ Finally

Next ==
  \/ \E s \in Systems : ChamarPorEmpresa(s)
  \/ Executar

Spec == Init /\ [][Next]_vars

\* ---- sincronizarTodasEmpresas ----
\* rows of AD_CONTRATOS with ATIVO = 'S', in the order of the query
Diretorio == {d \in SeqAte(Systems, Cardinality(Systems)) : SemRepeticao(d)}

\* what the model keeps of a SyncResult pushed on resultados
Pushed(r) == [idSistema |-> r.idSistema, success |-> r.success]

\* lines 429-433: entry of the batch driver
SincronizarTodasEmpresas ==
  /\ pc \in {"idle", "returned"}
  /\ pcLote \in {"idle", "done", "threw"}
  /\ pcLote' = "connect"
  /\ conexaoLote' = "undefined"
  /\ empresas' = <<>>
  /\ pos' = 1
  /\ iniciadas' = <<>>
  /\ resultados' = <<>>
  /\ UNCHANGED <<tabela, sessao, runVars, puroVars>>

\* line 436: getOracleConnection
LoteConnect ==
  /\ pcLote = "connect"
  /\ \/ /\ conexaoLote' = "open"
        /\ pcLote' = "query"
     \/ /\ pcLote' = "catch"
        /\ UNCHANGED conexaoLote
  /\ UNCHANGED <<tabela, sessao, runVars, puroVars, empresas, pos, iniciadas, resultados>>

\* lines 438-442: the directory query
LoteQuery ==
  /\ pcLote = "query"
  /\ \/ /\ \E d \in Diretorio : empresas' = d
        /\ pcLote' = "close"
     \/ /\ pcLote' = "catch"
        /\ UNCHANGED empresas
  /\ UNCHANGED <<tabela, sessao, runVars, puroVars, conexaoLote, pos, iniciadas,
                 resultados>>

\* lines 444-445: close the directory connection before the loop
LoteClose ==
  /\ pcLote = "close"
  /\ \/ /\ conexaoLote' = "undefined"
        /\ pcLote' = "loop"
     \/ /\ pcLote' = "catch"
        /\ UNCHANGED conexaoLote
  /\ UNCHANGED <<tabela, sessao, runVars, puroVars, empresas, pos, iniciadas, resultados>>

\* lines 455-459: the loop calls the reconciler for the next company
LoteIterar ==
  /\ pcLote = "loop"
  /\ pos <= Len(empresas)
  /\ Entrar(empresas[pos])
  /\ iniciadas' = Append(iniciadas, empresas[pos])
  /\ pcLote' = "running"
  /\ UNCHANGED <<conexaoLote, empresas, pos, resultados>>

\* the invocation has returned: its locals are gone
Sair ==
  /\ pc' = "idle"
  /\ idSistema' = 0
  /\ resposta' = NoResposta
  /\ financeiros' = <<>>
  /\ idx' = 1
  /\ inseridos' = 0
  /\ atualizados' = 0
  /\ registrosDeletados' = 0
  /\ errosLinha' = {}
  /\ connection' = "undefined"
  /\ closeCalls' = 0
  /\ falha' = "nenhum"
  /\ passos' = <<>>
  /\ resultado' = NoResult
  /\ adquiridas' = 0
  /\ liberadas' = 0
  /\ logs' = <<>>
  /\ logCalls' = 0
  /\ repetida' = "nao"
  /\ tabela0' = tabela
  /\ console' = {}
  /\ UNCHANGED <<tabela, sessao, ultimo, puroVars>>

\* faulty variant: the loop stops at the first company whose run failed
LotePushParaNaFalha ==
  /\ pcLote = "running"
  /\ pc = "returned"
  /\ resultados' = Append(resultados, Pushed(resultado))
  /\ pos' = pos + 1
  /\ pcLote' = IF resultado.success THEN "loop" ELSE "done"
  /\ Sair
  /\ UNCHANGED <<conexaoLote, empresas, iniciadas>>

\* lines 456-462: the run returned; push its result, pause, next company
LotePush ==
  /\ pcLote = "running"
  /\ pc = "returned"
  /\ resultados' = Append(resultados, Pushed(resultado))
  /\ pos' = pos + 1
  /\ pcLote' = "loop"
  /\ Sair
  /\ UNCHANGED <<conexaoLote, empresas, iniciadas>>

\* lines 447-450 and 465-471: no company, or the loop is over: return
LoteRetornar ==
  /\ pcLote = "loop"
  /\ pos > Len(empresas)
  /\ pcLote' = "done"
  /\ UNCHANGED <<tabela, sessao, runVars, puroVars, conexaoLote, empresas, pos, iniciadas,
                 resultados>>

\* faulty variant: the error is rethrown with no finally block
LoteCatchSemFinally ==
  /\ pcLote = "catch"
  /\ pcLote' = "threw"
  /\ UNCHANGED <<tabela, sessao, runVars, puroVars, conexaoLote, empresas, pos,
                 iniciadas, resultados>>

\* lines 473-484: rethrow; the finally block closes a connection still held
LoteCatch ==
  /\ pcLote = "catch"
  /\ pcLote' = "threw"
  /\ IF conexaoLote = "open"
       THEN \/ conexaoLote' = "closed"
            \/ conexaoLote' = "closeFailed"
       ELSE UNCHANGED conexaoLote
  /\ UNCHANGED <<tabela, sessao, runVars, puroVars, empresas, pos, iniciadas, resultados>>

NextLote ==
  \/ SincronizarTodasEmpresas
  \/ LoteConnect
  \/ LoteQuery
  \/ LoteClose
  \/ LoteIterar
  \/ LotePush
  \/ LoteRetornar
  \/ LoteCatch
  \/ Executar

\* the reconciler driven by the batch driver
SpecLote == Init /\ [][NextLote]_vars

\* ---- validarValorNumerico ----
\* JavaScript values that can be passed as valor.  A number is NaN or the
\* amount alto * 10^(MaxDigits-2) + centavos / 100 (exact for the amounts of
\* the model); a string is "numerica" (the decimal text of such an amount),
\* "vazia" (the empty string) or "outra" (text that is no number).
Undefined == [tipo |-> "undefined"]

Null == [tipo |-> "null"]

NaN == [tipo |-> "number", nan |-> TRUE, alto |-> 0, centavos |-> 0]

Num(a, c) == [tipo |-> "number", nan |-> FALSE, alto |-> a, centavos |-> c]

Str(texto, a, c) == [tipo |-> "string", texto |-> texto, alto |-> a, centavos |-> c]

Amounts == {Num(a, c) : a \in -MaxAlto..MaxAlto, c \in -MaxCentavos..MaxCentavos}

Valores ==
  {Undefined, Null, NaN, Str("vazia", 0, 0), Str("outra", 0, 0)}
    \cup Amounts
    \cup {Str("numerica", n.alto, n.centavos) : n \in Amounts}

\* Number(valor) of JavaScript: the empty string and null convert to 0,
\* undefined and text that is no number to NaN
ToNumber(v) ==
  CASE v.tipo = "number" -> v
    [] v.tipo = "null" -> Num(0, 0)
    [] v.tipo = "undefined" -> NaN
    [] v.tipo = "string" ->
         (CASE v.texto = "numerica" -> Num(v.alto, v.centavos)
            [] v.texto = "vazia" -> Num(0, 0)
            [] OTHER -> NaN)

\* x > y on numbers; false when either is NaN
Maior(x, y) ==
  /\ ~x.nan /\ ~y.nan
  /\ \/ x.alto > y.alto
     \/ x.alto = y.alto /\ x.centavos > y.centavos

Neg(x) == IF x.nan THEN x ELSE Num(-x.alto, -x.centavos)

\* Math.abs
Abs(x) == IF Maior(Num(0, 0), x) THEN Neg(x) ELSE x

\* line 179: Math.pow(10, maxDigits - 2) - 0.01, in units of 10^(maxDigits-2)
MaxValue(maxDigits) == Num(1, -1)

\* lines 172-186
ValidarValorNumerico(v, maxDigits) ==
  IF v.tipo \in {"undefined", "null"} THEN Null
  ELSE LET valorNum == ToNumber(v)
           maxValue == MaxValue(maxDigits)
       IN IF valorNum.nan THEN Null
          ELSE IF Maior(Abs(valorNum), maxValue)
                 THEN (IF Maior(valorNum, Num(0, 0)) THEN maxValue ELSE Neg(maxValue))
                 ELSE valorNum

\* a caller holds some value and is about to call validarValorNumerico
InitValor ==
  /\ InitPrograma
  /\ valor \in Valores
  /\ valorValidado = NaoChamado
  /\ dataStr = NaoChamado
  /\ date = NaoChamado
  /\ entities = NaoChamado
  /\ cleanObjects = NaoChamado
  /\ linha = Inexistente
  /\ agora = 1
  /\ registro = NaoChamado

\* lines 207-208: the call, with the default maxDigits
ChamarValidarValorNumerico ==
  /\ valor # NaoChamado
  /\ valorValidado = NaoChamado
  /\ valorValidado' = ValidarValorNumerico(valor, MaxDigits)
  /\ UNCHANGED <<tabela, sessao, runVars, loteVars, valor, dataStr, date,
                 entities, cleanObjects, linhaVars>>

NextValor == ChamarValidarValorNumerico

SpecValor == InitValor /\ [][NextValor]_vars

\* ---- parseDataSankhya ----
\* A field of a date or time text, as parseInt and the truthiness test see it:
\* "num" is a run of digits with value n, "misto" digits followed by other
\* characters (parseInt reads the digits), "texto" text that starts with no
\* digit, "vazio" the empty field, "undefined" a field split() did not return.
Tok(t, n) == [t |-> t, n |-> n]

Digitos(n) == Tok("num", n)

SemCampo == Tok("undefined", 0)

\* the texts of the model: the fields between '/' of the first part and the
\* fields between ':' of the part after the blank (<<>>: no second part)
DiasModelo == {Digitos(0), Digitos(1), Digitos(29), Digitos(31), Digitos(32),
               Tok("texto", 0), Tok("vazio", 0)}

MesesModelo == {Digitos(0), Digitos(2), Digitos(3), Digitos(12), Digitos(13),
                Tok("texto", 0)}

AnosModelo == {Digitos(24), Digitos(2023), Digitos(2024), Tok("misto", 2024)}

HorasModelo ==
  {<<>>, <<Tok("texto", 0)>>, <<Digitos(14)>>}
    \cup {<<Digitos(h), Digitos(m), Digitos(0)>> : h \in {14, 24}, m \in {30, 60}}

Texto(data, hora) == [tipo |-> "string", data |-> data, hora |-> hora]

DataStrs ==
  {Undefined, [tipo |-> "number"], Texto(<<>>, <<>>),
   Texto(<<Tok("texto", 0)>>, <<>>)}
    \cup {Texto(<<d, m>>, <<>>) : d \in DiasModelo, m \in MesesModelo}
    \cup {Texto(<<d, m, a>>, h) :
            d \in DiasModelo, m \in MesesModelo, a \in AnosModelo, h \in HorasModelo}

\* array destructuring: the i-th element, undefined past the end
Campo(f, i) == IF i <= Len(f) THEN f[i] ELSE SemCampo

\* !x on a field
Falsy(tok) == tok.t \in {"undefined", "vazio"}

\* parseInt
ParseInt(tok) ==
  IF tok.t \in {"num", "misto"} THEN [nan |-> FALSE, n |-> tok.n]
  ELSE [nan |-> TRUE, n |-> 0]

Bissexto(ano) == (ano % 4 = 0 /\ ano % 100 # 0) \/ ano % 400 = 0

\* days of the month with index m (0: January) of the year ano
DiasNoMes(ano, m) ==
  IF m = 1 THEN (IF Bissexto(ano) THEN 29 ELSE 28)
  ELSE IF m \in {3, 5, 8, 10} THEN 30
  ELSE 31

\* the Date constructor carries a day outside the month into the months around
RECURSIVE AjustarDia(_, _, _)
AjustarDia(ano, m, dia) ==
  IF dia < 1
    THEN LET pm == IF m = 0 THEN 11 ELSE m - 1
             pa == IF m = 0 THEN ano - 1 ELSE ano
         IN AjustarDia(pa, pm, dia + DiasNoMes(pa, pm))
  ELSE IF dia > DiasNoMes(ano, m)
    THEN AjustarDia(IF m = 11 THEN ano + 1 ELSE ano, IF m = 11 THEN 0 ELSE m + 1,
                    dia - DiasNoMes(ano, m))
  ELSE <<ano, m, dia>>

DateDe(ano, mes, dia, hora, minuto, segundo) ==
  [tipo |-> "date", valida |-> TRUE, ano |-> ano, mes |-> mes, dia |-> dia,
   hora |-> hora, minuto |-> minuto, segundo |-> segundo]

InvalidDate ==
  [tipo |-> "date", valida |-> FALSE, ano |-> 0, mes |-> 0, dia |-> 0,
   hora |-> 0, minuto |-> 0, segundo |-> 0]

\* lines 150-157: new Date(year, monthIndex, day, hours, minutes, seconds) in
\* local time: Invalid Date when an argument is NaN, years 0..99 are 1900..1999,
\* and a value outside its range is carried into the next unit
NewDate(ano, mesIdx, dia, hora, minuto, segundo) ==
  IF ano.nan \/ mesIdx.nan \/ dia.nan \/ hora.nan \/ minuto.nan \/ segundo.nan
    THEN InvalidDate
  ELSE LET a0 == IF ano.n \in 0..99 THEN 1900 + ano.n ELSE ano.n
           mn == minuto.n + (segundo.n \div 60)
           hr == hora.n + (mn \div 60)
           a1 == a0 + (mesIdx.n \div 12)
           amd == AjustarDia(a1, mesIdx.n % 12, dia.n + (hr \div 24))
       IN DateDe(amd[1], amd[2] + 1, amd[3], hr % 24, mn % 60, segundo.n % 60)

Menos1(x) == [nan |-> x.nan, n |-> IF x.nan THEN 0 ELSE x.n - 1]

\* lines 133-167
ParseDataSankhya(str) ==
  IF str.tipo = "undefined" THEN Null
  ELSE IF str.tipo # "string" THEN Null     \* trim() raises inside the try
  ELSE IF str.data = <<>> THEN Null         \* the empty string
  ELSE LET dia == Campo(str.data, 1)
           mes == Campo(str.data, 2)
           ano == Campo(str.data, 3)
           horaParte == IF str.hora = <<>>
                          THEN <<Digitos(0), Digitos(0), Digitos(0)>>
                          ELSE str.hora
           ouZero(tok) == IF Falsy(tok) THEN Digitos(0) ELSE tok
           hora == ouZero(Campo(horaParte, 1))
           minuto == ouZero(Campo(horaParte, 2))
           segundo == ouZero(Campo(horaParte, 3))
       IN IF Falsy(dia) \/ Falsy(mes) \/ Falsy(ano) THEN Null
          ELSE LET d == NewDate(ParseInt(ano), Menos1(ParseInt(mes)), ParseInt(dia),
                                ParseInt(hora), ParseInt(minuto), ParseInt(segundo))
               IN IF ~d.valida THEN Null ELSE d

\* a caller holds some text and is about to call parseDataSankhya
InitData ==
  /\ InitPrograma
  /\ dataStr \in DataStrs
  /\ date = NaoChamado
  /\ valor = NaoChamado
  /\ valorValidado = NaoChamado
  /\ entities = NaoChamado
  /\ cleanObjects = NaoChamado
  /\ linha = Inexistente
  /\ agora = 1
  /\ registro = NaoChamado

\* lines 202-204: the call
ChamarParseDataSankhya ==
  /\ dataStr # NaoChamado
  /\ date = NaoChamado
  /\ date' = ParseDataSankhya(dataStr)
  /\ UNCHANGED <<tabela, sessao, runVars, loteVars, valor, valorValidado,
                 dataStr, entities, cleanObjects, linhaVars>>

NextData == ChamarParseDataSankhya

SpecData == InitData /\ [][NextData]_vars

\* ---- decoding of lines 86-100 ----
\* field names the metadata of a response can declare
Nomes == {"NUFIN", "CODPARC"}

\* entities.metadata.fields.field, mapped to the names: no name twice
FieldNames == {f \in SeqAte(Nomes, Cardinality(Nomes)) : SemRepeticao(f)}

\* what a raw entity holds under the key f<i>: no such key ("ausente"), null,
\* an object without $ ("vazio"), or an object with the value v under $
Pos(k, v) == [k |-> k, v |-> v]

Posicoes ==
  {Pos("ausente", ""), Pos("null", ""), Pos("vazio", "")}
    \cup {Pos("valor", v) : v \in {"", "7"}}

RawEntities == [0..(Cardinality(Nomes) - 1) -> Posicoes]

\* entities: the field names, and entity as one object or as an array
Entities ==
  [fieldNames : FieldNames, array : {FALSE}, entity : RawEntities]
    \cup [fieldNames : FieldNames, array : {TRUE},
          entity : SeqAte(RawEntities, MaxLen)]

\* rawEntity[fieldKey]
PosicaoDe(raw, i) == IF i \in DOMAIN raw THEN raw[i] ELSE Pos("ausente", "")

\* line 95: the truthiness test on rawEntity[fieldKey]
Truthy(p) == p.k \in {"vazio", "valor"}

\* a property of cleanObject: none, or one holding undefined or a value
SemEntrada == Pos("semEntrada", "")

\* line 96: rawEntity[fieldKey].$
Cifrao(p) == IF p.k = "valor" THEN p ELSE Pos("undefined", "")

\* faulty variant: a position that is absent is set to undefined in the record
CleanObjectComPlaceholder(fieldNames, raw) ==
  [nome \in Nomes |->
     LET is == {i \in 1..Len(fieldNames) : fieldNames[i] = nome}
     IN IF is = {} THEN SemEntrada
        ELSE Cifrao(PosicaoDe(raw, (CHOOSE i \in is : \A j \in is : j <= i) - 1))]

\* lines 91-99: the loop over the field names; a later index with the same
\* name would overwrite an earlier one
CleanObject(fieldNames, raw) ==
  [nome \in Nomes |->
     LET is == {i \in 1..Len(fieldNames) :
                  fieldNames[i] = nome /\ Truthy(PosicaoDe(raw, i - 1))}
     IN IF is = {} THEN SemEntrada
        ELSE Cifrao(PosicaoDe(raw, (CHOOSE i \in is : \A j \in is : j <= i) - 1))]

\* line 88
EntityArray(ents) == IF ents.array THEN ents.entity ELSE <<ents.entity>>

\* lines 86-100
DecodificarEntidades(ents) ==
  LET entityArray == EntityArray(ents)
  IN [tipo |-> "array",
      itens |-> [e \in 1..Len(entityArray) |->
                   CleanObject(ents.fieldNames, entityArray[e])]]

\* a response with metadata and entities has arrived
InitDecodificar ==
  /\ InitPrograma
  /\ entities \in Entities
  /\ cleanObjects = NaoChamado
  /\ valor = NaoChamado
  /\ valorValidado = NaoChamado
  /\ dataStr = NaoChamado
  /\ date = NaoChamado
  /\ linha = Inexistente
  /\ agora = 1
  /\ registro = NaoChamado

\* lines 86-100 applied to it
ChamarDecodificar ==
  /\ entities # NaoChamado
  /\ cleanObjects = NaoChamado
  /\ cleanObjects' = DecodificarEntidades(entities)
  /\ UNCHANGED <<tabela, sessao, runVars, loteVars, valor, valorValidado,
                 dataStr, date, entities, linhaVars>>

NextDecodificar == ChamarDecodificar

SpecDecodificar == InitDecodificar /\ [][NextDecodificar]_vars

\* ---- the statements of lines 116-120, 221-237 and 260-268 on one row ----
\* records as decoded: CODPARC and PROVISAO stand for the fields bound with
\* "|| null", VLRDESDOB for the amounts, DTVENC for the dates; a field is
\* undefined when the record has no value for it
Registros ==
  [CODPARC : {Undefined, Num(0, 0), Num(0, 7), Str("numerica", 0, 0)},
   PROVISAO : {Undefined, Str("vazia", 0, 0), Str("outra", 0, 0)},
   VLRDESDOB : {Undefined, Num(0, 0), Num(1, 0), Str("numerica", 0, 7)},
   DTVENC : {Undefined, Texto(<<Tok("texto", 0)>>, <<>>),
             Texto(<<Digitos(29), Digitos(2), Digitos(2024)>>, <<>>)}]

\* truthiness of a JavaScript value: undefined, null, NaN, 0 and the empty
\* string are falsy
JsTruthy(v) ==
  CASE v.tipo \in {"undefined", "null"} -> FALSE
    [] v.tipo = "number" -> ~v.nan /\ (v.alto # 0 \/ v.centavos # 0)
    [] v.tipo = "string" -> v.texto # "vazia"

\* lines 239-251 and 272-284: financeiro.X || null
OuNull(v) == IF JsTruthy(v) THEN v ELSE Null

\* faulty variant: the UPDATE also sets DT_CRIACAO
UpdateComCriacao(l, rec, now) ==
  [l EXCEPT !.CODPARC = OuNull(rec.CODPARC),
            !.PROVISAO = OuNull(rec.PROVISAO),
            !.VLRDESDOB = ValidarValorNumerico(rec.VLRDESDOB, MaxDigits),
            !.DTVENC = ParseDataSankhya(rec.DTVENC),
            !.SANKHYA_ATUAL = "S",
            !.DT_ULT_CARGA = now,
            !.DT_CRIACAO = now]

\* lines 220-256: the UPDATE of the row of the record
UpdateAsFinanceiro(l, rec, now) ==
  [l EXCEPT !.CODPARC = OuNull(rec.CODPARC),
            !.PROVISAO = OuNull(rec.PROVISAO),
            !.VLRDESDOB = ValidarValorNumerico(rec.VLRDESDOB, MaxDigits),
            !.DTVENC = ParseDataSankhya(rec.DTVENC),
            !.SANKHYA_ATUAL = "S",
            !.DT_ULT_CARGA = now]

\* lines 259-287: the INSERT of the row of the record
InsertAsFinanceiro(rec, now) ==
  [tipo |-> "linha",
   CODPARC |-> OuNull(rec.CODPARC),
   PROVISAO |-> OuNull(rec.PROVISAO),
   VLRDESDOB |-> ValidarValorNumerico(rec.VLRDESDOB, MaxDigits),
   DTVENC |-> ParseDataSankhya(rec.DTVENC),
   SANKHYA_ATUAL |-> "S",
   DT_ULT_CARGA |-> now,
   DT_CRIACAO |-> now]

\* lines 116-120: the UPDATE of marcarTodosComoNaoAtuais, on one row
UpdateNaoAtual(l, now) ==
  IF l.SANKHYA_ATUAL = "S"
    THEN [l EXCEPT !.SANKHYA_ATUAL = "N", !.DT_ULT_CARGA = now]
    ELSE l

\* no statement has touched the (system, key) yet
InitLinha ==
  /\ InitPrograma
  /\ linha = Inexistente
  /\ agora = 1
  /\ registro = NaoChamado
  /\ valor = NaoChamado
  /\ valorValidado = NaoChamado
  /\ dataStr = NaoChamado
  /\ date = NaoChamado
  /\ entities = NaoChamado
  /\ cleanObjects = NaoChamado

\* lines 210-289: an iteration of the upsert loop on the record rec of the key
UpsertLinha(rec) ==
  /\ agora <= MaxAgora
  /\ linha' = IF linha # Inexistente
                THEN UpdateAsFinanceiro(linha, rec, agora)
                ELSE InsertAsFinanceiro(rec, agora)
  /\ registro' = rec
  /\ agora' = agora + 1
  /\ UNCHANGED <<tabela, sessao, runVars, loteVars, valor, valorValidado,
                 dataStr, date, entities, cleanObjects>>

\* line 321: the stale-marking of a run of the system of the row
MarcarLinha ==
  /\ agora <= MaxAgora
  /\ linha # Inexistente
  /\ linha' = UpdateNaoAtual(linha, agora)
  /\ agora' = agora + 1
  /\ UNCHANGED <<tabela, sessao, runVars, loteVars, valor, valorValidado,
                 dataStr, date, entities, cleanObjects, registro>>

NextLinha ==
  \/ \E rec \in Registros : UpsertLinha(rec)
  \/ MarcarLinha

SpecLinha == InitLinha /\ [][NextLinha]_vars

\* ---- properties ----
Chaves(fin) == {fin[i] : i \in 1..Len(fin)}

\* keys of the snapshot with an occurrence whose upsert did not raise
ChavesGravadas == {financeiros[i] : i \in (1..Len(financeiros)) \ errosLinha}

\* the current run has committed
Commitado ==
  \/ pc = "logSucesso"
  \/ pc \in {"finally", "returned"} /\ resultado.success

Tem(q, x) == \E i \in 1..Len(q) : q[i] = x

\* C1 as stated: after a run of system S that committed, (S,K) is active
\* iff K appeared in the snapshot the run fetched, row-level errors included.
C1_TombstoneComoEscrito ==
  Commitado => ChavesAtivas(tabela, idSistema) = Chaves(financeiros)

\* C1 amended: after a run of system S that committed, (S,K) is active iff
\* K appeared in the fetched snapshot in a record whose upsert did not raise.
C1_Tombstone ==
  Commitado => ChavesAtivas(tabela, idSistema) = ChavesGravadas

\* a committed run with a row-level error that tombstoned a key and kept one
C1_Witness ==
  /\ pc = "returned"
  /\ resultado.success
  /\ errosLinha # {}
  /\ ChavesAtivas(tabela, idSistema) # {}
  /\ ChavesAtivas(tabela0, idSistema) \ ChavesAtivas(tabela, idSistema) # {}

\* C2: in every state, committed or inside the open transaction, no
\* (system, business key) has more than one row with SANKHYA_ATUAL = 'S'.
C2_AtMostOneActive ==
  \A s \in Systems : \A k \in Keys :
    /\ Cardinality(Ativas(tabela[s][k])) <= 1
    /\ Cardinality(Ativas(sessao[s][k])) <= 1

\* a key that an earlier run inserted and this run updated, active once
C2_Witness ==
  /\ pc = "returned"
  /\ resultado.success
  /\ resultado.registrosAtualizados >= 1
  /\ \E k \in Keys : /\ Cardinality(Ativas(tabela[idSistema][k])) = 1
                     /\ Len(tabela0[idSistema][k]) = 1

\* what a second run on an unchanged snapshot must show
Idempotente ==
  /\ ChavesAtivas(tabela, idSistema) = ChavesAtivas(tabela0, idSistema)
  /\ inseridos = 0
  /\ atualizados = Len(financeiros)

RECURSIVE Aplicar(_, _, _, _, _)
Aplicar(t, s, fin, errs, i) ==
  IF i > Len(fin) THEN t
  ELSE Aplicar(IF i \in errs THEN t ELSE UpsertUm(t, s, fin[i]), s, fin, errs, i + 1)

Reconciliado ==
  Aplicar(MarcarTodosComoNaoAtuais(tabela0, idSistema), idSistema, financeiros,
          errosLinha, 1)

\* C4: the committed table is the one the run found until the commit
\* returns, and from then on it is the stale-marking and the upserts together;
\* a run that fails after the connection is acquired attempts the rollback,
\* leaves the committed table as it found it and returns success = false.
C4_TudoOuNada ==
  /\ Commitado => tabela = Reconciliado
  /\ ~Commitado => tabela = tabela0
  /\ falha # "nenhum" => ~Commitado
  /\ (falha \in {"stale", "commit"} /\ pc \in {"logFalha", "finally", "returned"})
       => Tem(passos, "rollback") \/ Tem(passos, "rollbackFailed")
  /\ (falha # "nenhum" /\ pc = "returned")
       => ~resultado.success /\ sessao = tabela

\* a run whose commit failed after it changed rows in its transaction
C4_Witness ==
  /\ pc = "returned"
  /\ falha = "commit"
  /\ ~resultado.success
  /\ Reconciliado # tabela0
  /\ ChavesAtivas(tabela0, idSistema) # {}
  /\ tabela = tabela0

\* C5: a record whose upsert raises does not end the run: the loop goes on,
\* only a failure of the commit can still fail the run, and a run that
\* commits counts every record but the ones that raised (N-1 for one error).
C5_FalhaIsolada ==
  /\ (errosLinha # {} /\ pc = "upsert")
       => IF idx <= Len(financeiros) THEN ENABLED UpsertFinanceiro
          ELSE ENABLED Commit
  /\ (errosLinha # {} /\ falha # "nenhum") => falha = "commit"
  /\ errosLinha # {} => idx > 1 /\ \A i \in errosLinha : i < idx
  /\ (pc = "returned" /\ falha = "nenhum")
       => /\ resultado.success
          /\ idx = Len(financeiros) + 1
          /\ resultado.registrosInseridos + resultado.registrosAtualizados
               = Len(financeiros) - Cardinality(errosLinha)

\* two records, the first raises, the second is processed, the run commits
C5_Witness ==
  /\ pc = "returned"
  /\ resultado.success
  /\ Len(financeiros) = 2
  /\ errosLinha = {1}
  /\ resultado.registrosInseridos + resultado.registrosAtualizados = 1

\* the response holds no entity: no entity member, or an empty collection
\* beside its metadata
RespostaVazia ==
  \/ resposta.entity = "absent"
  \/ resposta.entity = "array" /\ resposta.metadata /\ financeiros = <<>>

Ordem ==
  [idle |-> 0, token |-> 1, fetch |-> 2, connect |-> 3, stale |-> 4,
   upsert |-> 5, logSucesso |-> 6, catch |-> 6, logFalha |-> 7,
   finally |-> 8, returned |-> 9]

\* grows with every step of a run and is bounded by 10 * (MaxLen + 2)
Medida == Ordem[pc] * (MaxLen + 2) + idx

OrdemLote ==
  [idle |-> 0, connect |-> 1, query |-> 2, close |-> 3, loop |-> 4,
   running |-> 4, catch |-> 5, done |-> 5, threw |-> 6]

\* grows with every step of a batch
MedidaLote ==
  (OrdemLote[pcLote] * (Cardinality(Systems) + 2) + pos) * (10 * (MaxLen + 2))
    + Medida

StatusDe(r) == IF r.success THEN "SUCESSO" ELSE "FALHA"

\* C7 as stated: a run that returned left exactly one entry in the Log
\* Sink, with the status of its SyncResult.
C7_UmLogComoEscrito ==
  pc = "returned" =>
    /\ Len(logs) = 1
    /\ logs[1].status = StatusDe(resultado)

EmCurso == pc \notin {"idle", "returned"}

C7_Estado ==
  /\ EmCurso => ENABLED Executar
  /\ Medida <= 10 * (MaxLen + 2)
  /\ pc \notin {"finally", "returned"} => resultado = NoResult /\ logCalls = 0
  /\ pc \in {"finally", "returned"} =>
       /\ resultado # NoResult
       /\ resultado.idSistema = idSistema
       /\ resultado.success = (falha = "nenhum")
       /\ logCalls = 1
       /\ Len(logs) <= 1
       /\ \A i \in 1..Len(logs) :
            /\ logs[i].idSistema = idSistema
            /\ logs[i].status = StatusDe(resultado)

\* C7 amended: every invocation returns (a step is enabled until it has
\* returned and every step raises the bounded Medida), with exactly one
\* SyncResult, never changed once built, and exactly one call of the Log
\* Sink; that call leaves one entry with the status of the SyncResult, or,
\* when the Log Sink itself raises, no entry.
C7_UmResultadoUmLog ==
  /\ []C7_Estado
  /\ [][(Executar => Medida' > Medida)
        /\ (pc \in {"finally", "returned"} /\ pc' # "token" /\ pc' # "idle"
              => resultado' = resultado)]_vars

\* a committed run that returned its result although the Log Sink raised
C7_Witness ==
  /\ pc = "returned"
  /\ resultado.success
  /\ resultado.totalRegistros = 2
  /\ logCalls = 1
  /\ logs = <<>>

C8_Estado ==
  /\ pcLote \in {"loop", "running", "done"} =>
       /\ pos <= Len(empresas) + 1
       /\ Len(resultados) = pos - 1
       /\ \A i \in 1..Len(resultados) : resultados[i].idSistema = empresas[i]
       /\ iniciadas = SubSeq(empresas, 1, IF pcLote = "running" THEN pos ELSE pos - 1)
       /\ ENABLED NextLote
  /\ pcLote = "done" => pos = Len(empresas) + 1
  /\ pcLote = "running" => pc # "idle" /\ idSistema = empresas[pos]
  /\ pcLote # "running" => pc = "idle"
  /\ pcLote \in {"catch", "threw"} => iniciadas = <<>>

\* C8: the batch driver runs the companies of the directory one after
\* another in the order of the directory, each once, a run starting only when
\* no other run is in progress; a failed run does not stop it; it ends (a
\* step is enabled until it returns and every step raises the bounded
\* MedidaLote) and returns one SyncResult per company in the same order.
C8_LoteSequencial ==
  /\ []C8_Estado
  /\ [][(pcLote' # "connect" => MedidaLote' > MedidaLote)
        /\ (pcLote \in {"loop", "running"} => pcLote' \in {"loop", "running", "done"})
        /\ (pcLote = "loop" /\ pcLote' = "done" => pos = Len(empresas) + 1)]_vars

\* a batch of two companies that returned, the first run failed, the second not
C8_Witness ==
  /\ pcLote = "done"
  /\ Len(empresas) = 2
  /\ Len(resultados) = 2
  /\ ~resultados[1].success
  /\ resultados[2].success

\* the token was not obtained
TokenFalhou ==
  /\ Len(passos) >= 1
  /\ pc # "fetch"
  /\ Len(passos) >= 2 => passos[2] # "fetch"

\* the credential, the remote call or the decoding failed
FalhaTransporte ==
  \/ TokenFalhou
  \/ resposta.entity = "erro"
  \/ resposta.entity \in {"single", "array"} /\ ~resposta.metadata

\* C9: a run whose credential, remote call or decoding fails goes to the
\* failure path without acquiring a connection, marking stale, upserting or
\* committing; the table is unchanged; it returns success = false with the
\* error; the batch driver is still running and takes the result.
C9_FalhaTransporte ==
  FalhaTransporte =>
    /\ pc \in {"catch", "logFalha", "finally", "returned"}
    /\ falha \in {"token", "fetch", "decode"}
    /\ tabela = tabela0
    /\ sessao = tabela
    /\ connection = "undefined"
    /\ adquiridas = 0
    /\ ~Tem(passos, "connect") /\ ~Tem(passos, "stale")
    /\ ~Tem(passos, "upsert") /\ ~Tem(passos, "commit")
    /\ pc \in {"finally", "returned"} =>
         /\ ~resultado.success
         /\ resultado.erro = falha
         /\ resultado.totalRegistros = 0
    /\ pcLote = "running"
    /\ pc = "returned" => ENABLED LotePush

\* the first run of a batch of two failed at the remote call; rows stay active
C9_Witness ==
  /\ pc = "returned"
  /\ resposta.entity = "erro"
  /\ ~resultado.success
  /\ ChavesAtivas(tabela, idSistema) # {}
  /\ pcLote = "running"
  /\ Len(empresas) = 2
  /\ pos = 1

\* C10: a run closes the connection it acquired exactly once on every
\* path and holds none when it returns; unless close() itself raises, the
\* connection is then released.
C10_ConexaoLiberada ==
  /\ adquiridas <= 1
  /\ closeCalls <= adquiridas
  /\ liberadas <= closeCalls
  /\ connection = "open" => EmCurso /\ adquiridas = 1 /\ closeCalls = 0
  /\ pc = "returned" =>
       /\ closeCalls = adquiridas
       /\ connection # "open"
       /\ connection # "closeFailed" => liberadas = adquiridas

\* commit, rollback and the Log Sink all failed; the connection was released
C10_Witness ==
  /\ pc = "returned"
  /\ falha = "commit"
  /\ Tem(passos, "rollbackFailed")
  /\ logs = <<>>
  /\ adquiridas = 1
  /\ liberadas = 1
  /\ connection = "closed"

\* the SyncResult the run builds on the path it is on
ResultadoDoCaminho ==
  IF falha = "nenhum" THEN ResultadoSucesso ELSE ResultadoFalha

\* the call of the Log Sink was made and raised
LogFalhou == logCalls = 1 /\ logs = <<>>

\* C11: when recording the log entry raises, the error is only printed: the
\* run goes on to its return statement; a run that committed returns
\* success = true with its real counts and its rows stay committed, a run
\* that failed returns its failure SyncResult with the original error.
C11_LogNuncaFalha ==
  LogFalhou =>
    /\ pc \in {"finally", "returned"}
    /\ "log" \in console
    /\ resultado = ResultadoDoCaminho
    /\ falha = "nenhum" =>
         /\ resultado.success
         /\ resultado.totalRegistros = Len(financeiros)
         /\ resultado.registrosInseridos + resultado.registrosAtualizados
              = Len(financeiros) - Cardinality(errosLinha)
         /\ tabela = Reconciliado
    /\ falha # "nenhum" =>
         /\ ~resultado.success
         /\ resultado.erro = falha
         /\ falha \in {"token", "fetch", "decode", "connect", "stale", "commit"}
         /\ tabela = tabela0

\* a run that inserted a row and committed, returned although the Log Sink
\* raised, and the row is in the committed table
C11_Witness ==
  /\ pc = "returned"
  /\ LogFalhou
  /\ resultado.success
  /\ resultado.registrosInseridos = 1
  /\ tabela # tabela0
  /\ ChavesAtivas(tabela, idSistema) # {}

\* C12 as stated: a run in which nothing failed but the commit, the
\* rollback or the close returns the outcome it was heading for, success.
C12_ComoEscrito ==
  (pc = "returned" /\ falha \in {"nenhum", "commit"}) => resultado.success

\* C12 amended: a failure of the rollback or of the close is only printed
\* and the run returns the SyncResult decided before it; a failure of the
\* commit is what decides the outcome: the run takes the failure path,
\* prints the error, calls the Log Sink with FALHA and returns success =
\* false with the commit error; in no case does the run return without a
\* SyncResult.
C12_FalhaNaoMudaResultado ==
  /\ pc = "returned" => resultado # NoResult /\ resultado = ResultadoDoCaminho
  /\ Tem(passos, "rollbackFailed") =>
       /\ pc \in {"logFalha", "finally", "returned"}
       /\ falha \in {"stale", "commit"}
       /\ "rollback" \in console
       /\ pc \in {"finally", "returned"} =>
            ~resultado.success /\ resultado.erro = falha
  /\ connection = "closeFailed" =>
       /\ pc = "returned"
       /\ "close" \in console
       /\ resultado.success = (falha = "nenhum")
  /\ falha = "commit" =>
       /\ pc \in {"catch", "logFalha", "finally", "returned"}
       /\ tabela = tabela0
       /\ pc # "catch" => "sync" \in console
       /\ pc \in {"finally", "returned"} =>
            /\ ~resultado.success
            /\ resultado.erro = "commit"
            /\ logCalls = 1
            /\ \A i \in 1..Len(logs) : logs[i].status = "FALHA"

\* a run whose stale-marking raised, whose rollback raised and whose close
\* raised: the failure result carries the first error
C12_Witness ==
  /\ pc = "returned"
  /\ falha = "stale"
  /\ Tem(passos, "rollbackFailed")
  /\ connection = "closeFailed"
  /\ console = {"sync", "rollback", "close"}
  /\ resultado.erro = "stale"

\* the input is a number or the decimal text of one
Numerico(v) ==
  \/ v.tipo = "number" /\ ~v.nan
  \/ v.tipo = "string" /\ v.texto = "numerica"

Limite == MaxValue(MaxDigits)

\* what the clamp returns for the amount n
Clamp(n) ==
  IF Maior(n, Limite) THEN Limite
  ELSE IF Maior(Neg(Limite), n) THEN Neg(Limite)
  ELSE n

\* C13 as stated: for a numeric input v the sanitizer returns +limit when
\* v > limit, -limit when v < -limit and v otherwise; for a non-numeric or
\* missing input (undefined, null, NaN, text that is no number, the empty
\* string) it returns no value.
C13_ClampComoEscrito ==
  valorValidado # NaoChamado =>
    IF Numerico(valor) THEN valorValidado = Clamp(ToNumber(valor))
    ELSE valorValidado = Null

\* C13 but for the empty string, which the sanitizer returns as 0
C13_ClampSalvoVazio ==
  valorValidado # NaoChamado =>
    IF Numerico(valor) THEN valorValidado = Clamp(ToNumber(valor))
    ELSE IF valor = Str("vazia", 0, 0) THEN valorValidado = Num(0, 0)
    ELSE valorValidado = Null

\* the amount one cent above the limit was clamped to the limit
C13_Witness ==
  /\ valor = Num(1, 0)
  /\ valorValidado = Num(1, -1)

TodosDigitos(f) == \A i \in 1..Len(f) : f[i].t = "num"

\* DD/MM/YYYY of a day that exists, alone or followed by HH:MM:SS of an
\* instant that exists
BemFormada(str) ==
  /\ str.tipo = "string"
  /\ Len(str.data) = 3
  /\ TodosDigitos(str.data)
  /\ str.data[3].n \in 1000..9999
  /\ str.data[2].n \in 1..12
  /\ str.data[1].n \in 1..DiasNoMes(str.data[3].n, str.data[2].n - 1)
  /\ \/ str.hora = <<>>
     \/ /\ Len(str.hora) = 3
        /\ TodosDigitos(str.hora)
        /\ str.hora[1].n \in 0..23
        /\ str.hora[2].n \in 0..59
        /\ str.hora[3].n \in 0..59

\* the instant a well-formed text denotes
Denotada(str) ==
  IF str.hora = <<>>
    THEN DateDe(str.data[3].n, str.data[2].n, str.data[1].n, 0, 0, 0)
    ELSE DateDe(str.data[3].n, str.data[2].n, str.data[1].n,
                str.hora[1].n, str.hora[2].n, str.hora[3].n)

\* C14 as stated: the date sanitizer never raises; it returns the date at
\* 00:00:00 for a well-formed DD/MM/YYYY, the exact date-time for a
\* well-formed DD/MM/YYYY HH:MM:SS, and no value for every other input, a
\* day or month out of range included.
C14_DataComoEscrita ==
  date # NaoChamado =>
    IF BemFormada(dataStr) THEN date = Denotada(dataStr) ELSE date = Null

\* a field parseInt cannot read, or a date part with fewer than three
\* non-empty fields
Ilegivel(str) ==
  \/ str.tipo # "string"
  \/ \E i \in 1..3 : Falsy(Campo(str.data, i)) \/ Campo(str.data, i).t = "texto"
  \/ \E i \in 1..Len(str.hora) : i <= 3 /\ str.hora[i].t = "texto"

\* what does hold of the date sanitizer: it returns (no value or a date), the
\* denoted instant for a well-formed text, and no value exactly for the
\* texts with a missing, empty or unreadable field
C14_DataSalvoTransbordo ==
  date # NaoChamado =>
    /\ date = Null \/ (date.tipo = "date" /\ date.valida)
    /\ BemFormada(dataStr) => date = Denotada(dataStr)
    /\ date = Null <=> Ilegivel(dataStr)

\* "29/02/2024 14:30:00" was parsed to that instant
C14_Witness ==
  /\ dataStr = Texto(<<Digitos(29), Digitos(2), Digitos(2024)>>,
                     <<Digitos(14), Digitos(30), Digitos(0)>>)
  /\ date = DateDe(2024, 2, 29, 14, 30, 0)

\* C15: the decoder returns one record per entity, in the order of the
\* response, a single entity counting as a collection of one; for every
\* declared index i the record holds under name[i] what the entity holds
\* under $ at position i when the position is there, and has no entry for
\* name[i] when it is not (nor for a name the metadata does not declare).
C15_Decodificacao ==
  cleanObjects # NaoChamado =>
    LET arr == EntityArray(entities)
        nomes == entities.fieldNames
    IN /\ ~entities.array => Len(arr) = 1 /\ arr[1] = entities.entity
       /\ Len(cleanObjects.itens) = Len(arr)
       /\ \A e \in 1..Len(arr) :
            /\ \A i \in 1..Len(nomes) :
                 LET p == arr[e][i - 1]
                     c == cleanObjects.itens[e][nomes[i]]
                 IN CASE p.k = "valor" -> c = p
                      [] p.k = "vazio" -> c = Pos("undefined", "")
                      [] OTHER -> c = SemEntrada
            /\ \A nome \in Nomes \ Chaves(nomes) :
                 cleanObjects.itens[e][nome] = SemEntrada

\* a single entity with a value at position 0 and nothing at position 1,
\* decoded to one record with the first name only
C15_Witness ==
  /\ cleanObjects # NaoChamado
  /\ ~entities.array
  /\ entities.fieldNames = <<"CODPARC", "NUFIN">>
  /\ entities.entity[0] = Pos("valor", "7")
  /\ entities.entity[1] = Pos("ausente", "")
  /\ Len(cleanObjects.itens) = 1
  /\ cleanObjects.itens[1]["CODPARC"] = Pos("valor", "7")
  /\ cleanObjects.itens[1]["NUFIN"] = SemEntrada

\* the remote call answered, and the answer carries no field metadata
SemMetadata == resposta.entity \in {"absent", "single", "array"} /\ ~resposta.metadata

\* the run ends FAILED at the decoding with the mirror table as it found it
FalhaNaDecodificacao ==
  /\ pc \in {"catch", "logFalha", "finally", "returned"}
  /\ falha = "decode"
  /\ ~Tem(passos, "stale")
  /\ tabela = tabela0
  /\ sessao = tabela
  /\ pc \in {"finally", "returned"} => ~resultado.success

\* C16 as stated: when the response carries no field metadata the decoding
\* fails and the run ends FAILED with the mirror table unchanged; such a
\* response is never taken as a snapshot of zero records.
C16_RespostaMalformada ==
  SemMetadata => FalhaNaDecodificacao

\* C16 for the responses that hold an entity member: there the missing
\* metadata does fail the decoding
C16_MalformadaComEntidade ==
  (SemMetadata /\ resposta.entity # "absent") => FalhaNaDecodificacao

\* a response with neither metadata nor entities was taken as an empty
\* snapshot: the run committed and tombstoned the active rows of the system
C16_Witness ==
  /\ pc = "returned"
  /\ resposta = [entity |-> "absent", metadata |-> FALSE]
  /\ resultado.success
  /\ ChavesAtivas(tabela0, idSistema) # {}
  /\ ChavesAtivas(tabela, idSistema) = {}

\* every row of t is still a row of u
NenhumaRemovida(t, u) ==
  \A s \in Systems : \A k \in Keys : Len(u[s][k]) >= Len(t[s][k])

C17_Estado ==
  /\ NenhumaRemovida(tabela0, tabela)
  /\ NenhumaRemovida(tabela, sessao)
  /\ Commitado =>
       \A k \in ChavesAtivas(tabela0, idSistema) \ Chaves(financeiros) :
         /\ Len(tabela[idSistema][k]) >= 1
         /\ Ativas(tabela[idSistema][k]) = {}

\* C17: no step of the reconciler, of the upsert loop or of the batch
\* driver removes a row: from any state to the next the committed table
\* keeps every (system, key) row it had, the open transaction holds every
\* committed row, and a key that was active and is no longer in the
\* snapshot is, after the commit, still a row, with SANKHYA_ATUAL = 'N'.
C17_SemDelecaoFisica ==
  /\ []C17_Estado
  /\ [][NenhumaRemovida(tabela, tabela')]_vars

\* a batch whose run committed a snapshot without a key that was active:
\* the row is still there, inactive
C17_Witness ==
  /\ pcLote = "running"
  /\ pc = "returned"
  /\ resultado.success
  /\ \E k \in ChavesAtivas(tabela0, idSistema) \ Chaves(financeiros) :
       /\ Len(tabela[idSistema][k]) = 1
       /\ Ativas(tabela[idSistema][k]) = {}

\* the steps of lines 317-324
EhPrincipal(p) == p \in {"token", "fetch", "connect", "stale", "upsert", "commit"}

Principais == SelectSeq(passos, EhPrincipal)

\* the success path of a run that fetched n records
Caminho(n) ==
  <<"token", "fetch", "connect", "stale">> \o [i \in 1..n |-> "upsert"]
    \o <<"commit">>

Prefixo(p, q) == Len(p) <= Len(q) /\ \A i \in 1..Len(p) : p[i] = q[i]

\* the step at which the error falha was raised
PassoDaFalha == IF falha = "decode" THEN "fetch" ELSE falha

C18_Estado ==
  /\ Prefixo(Principais, Caminho(Len(financeiros)))
  /\ \A i \in 1..Len(passos) : \A j \in (i + 1)..Len(passos) :
       EhPrincipal(passos[j]) => EhPrincipal(passos[i])
  /\ Tem(passos, "stale") =>
       Len(Principais) = 4 + (idx - 1) + (IF Tem(passos, "commit") THEN 1 ELSE 0)
  /\ Tem(passos, "commit") => idx = Len(financeiros) + 1
  /\ falha = "nenhum" =>
       /\ pc \notin {"catch", "logFalha"}
       /\ pc \in {"logSucesso", "finally", "returned"}
            => Principais = Caminho(Len(financeiros))
  /\ falha # "nenhum" =>
       /\ pc \in {"catch", "logFalha", "finally", "returned"}
       /\ Principais # <<>>
       /\ Principais[Len(Principais)] = PassoDaFalha
       /\ pc \in {"finally", "returned"} => ~resultado.success
  /\ (pc \in {"finally", "returned"} /\ resultado.success)
       => Principais = Caminho(Len(financeiros))

\* C18: the steps of a run are a prefix of token, fetch, connection,
\* stale-marking, one upsert per fetched record in the order of the fetch,
\* commit, each of the others at most once (no retry); no upsert comes
\* before the stale-marking and the commit comes after the last upsert; a
\* run that stops before the end of this path does so because a step raised,
\* goes to the failure path, takes no further step of the path and returns
\* success = false.
C18_OrdemDosPassos ==
  /\ []C18_Estado
  /\ [][(Len(passos') = Len(passos) + 1 /\ passos'[Len(passos')] = "upsert")
          => /\ idx' = idx + 1
             /\ idx <= Len(financeiros)
             /\ \/ sessao' = UpsertUm(sessao, idSistema, financeiros[idx])
                \/ sessao' = sessao /\ idx \in errosLinha']_vars

\* a run that took the whole path on two records and committed
C18_Witness ==
  /\ pc = "logSucesso"
  /\ passos = <<"token", "fetch", "connect", "stale", "upsert", "upsert", "commit">>
  /\ financeiros = <<2, 1>>
  /\ ChavesAtivas(tabela, idSistema) = {1, 2}

\* the step is an iteration of the upsert loop
PassoDeUpsert == pc = "upsert" /\ idx' = idx + 1

\* the rows of every other (system, key) are as they were
SoMuda(s, k) ==
  \A s2 \in Systems : \A k2 \in Keys :
    (s2 # s \/ k2 # k) => sessao'[s2][k2] = sessao[s2][k2]

\* C19: in the upsert loop, a record whose statements do not raise and
\* whose (system, key) row exists, active or not, adds no row, leaves the row
\* active and adds exactly 1 to the updated count; one whose row does not
\* exist adds exactly one row, active, and adds exactly 1 to the inserted
\* count; a record that raises changes neither the rows nor the counts; so
\* inserted + updated is the number of records processed without error.
C19_RamoEContagem ==
  /\ [](Tem(passos, "stale") =>
          inseridos + atualizados = (idx - 1) - Cardinality(errosLinha))
  /\ [][PassoDeUpsert =>
          LET s == idSistema
              k == financeiros[idx]
              antes == sessao[s][k]
              depois == sessao'[s][k]
          IN /\ SoMuda(s, k)
             /\ tabela' = tabela
             /\ IF idx \in errosLinha'
                  THEN /\ depois = antes
                       /\ inseridos' = inseridos
                       /\ atualizados' = atualizados
                  ELSE IF Len(antes) > 0
                  THEN /\ Len(depois) = Len(antes)
                       /\ Ativas(depois) = 1..Len(depois)
                       /\ atualizados' = atualizados + 1
                       /\ inseridos' = inseridos
                  ELSE /\ Len(depois) = 1
                       /\ Ativas(depois) = {1}
                       /\ inseridos' = inseridos + 1
                       /\ atualizados' = atualizados]_vars

\* a run that updated the row of one key, inactive when the upsert reached
\* it, and inserted the row of another
C19_Witness ==
  /\ pc = "upsert"
  /\ idx = 3
  /\ errosLinha = {}
  /\ Len(tabela0[idSistema][financeiros[1]]) = 1
  /\ Len(tabela0[idSistema][financeiros[2]]) = 0
  /\ atualizados = 1
  /\ inseridos = 1
  /\ ChavesAtivas(sessao, idSistema) = {1, 2}

\* rows of the system of the run that were active when it started and are
\* inactive in the committed table
Desativadas ==
  UNION {{<<k, j>> : j \in Ativas(tabela0[idSistema][k])
                           \ Ativas(tabela[idSistema][k])} : k \in Keys}

\* C20: from the stale-marking on, the marked-stale count of the run is
\* the number of rows of the system that were active when the run started;
\* a successful run reports that number, and it is at least the number of
\* rows that were active before the run and are inactive after it.
C20_MarcadosStale ==
  /\ (Tem(passos, "stale") /\ falha # "stale")
       => registrosDeletados = TotalAtivas(tabela0, idSistema)
  /\ (pc \in {"finally", "returned"} /\ resultado.success) =>
       /\ resultado.registrosDeletados = TotalAtivas(tabela0, idSistema)
       /\ resultado.registrosDeletados >= Cardinality(Desativadas)

\* two rows were active, the run re-activated one: it reports 2 marked
\* stale, and 1 row ended inactive
C20_Witness ==
  /\ pc = "returned"
  /\ resultado.success
  /\ resultado.registrosDeletados = 2
  /\ Cardinality(Desativadas) = 1
  /\ Cardinality(ChavesAtivas(tabela, idSistema)) = 1

\* C21: DT_CRIACAO of a row is the time of the INSERT that created it, and
\* no later statement on the row, the stale-marking UPDATE or the UPDATE of
\* an upsert, changes it or removes the row.
C21_CriacaoImutavel ==
  /\ [](linha # Inexistente =>
          linha.DT_CRIACAO <= linha.DT_ULT_CARGA /\ linha.DT_CRIACAO < agora)
  /\ [][IF linha = Inexistente
          THEN linha' # Inexistente => linha'.DT_CRIACAO = agora
          ELSE linha' # Inexistente /\ linha'.DT_CRIACAO = linha.DT_CRIACAO]_vars

\* a row inserted at time 1, marked stale and updated again at time 3
C21_Witness ==
  /\ linha # Inexistente
  /\ linha.DT_CRIACAO = 1
  /\ linha.DT_ULT_CARGA = 3
  /\ linha.SANKHYA_ATUAL = "S"
  /\ agora = 4

\* the value of the record for a field, null when it has none
ValorOuNull(v) == IF v.tipo = "undefined" THEN Null ELSE v

\* C23 as stated: after an upsert of a record that did not raise, every
\* business column of the row holds the (sanitized) value of the record,
\* zero and the empty string included, and is null exactly when the record
\* has no value for the field.
C23_TodosOsCampos ==
  linha # Inexistente =>
    /\ linha.CODPARC = ValorOuNull(registro.CODPARC)
    /\ linha.PROVISAO = ValorOuNull(registro.PROVISAO)
    /\ linha.VLRDESDOB = ValidarValorNumerico(registro.VLRDESDOB, MaxDigits)
    /\ linha.DTVENC = ParseDataSankhya(registro.DTVENC)

\* C23 as the code has it: the columns bound with "|| null" hold the value
\* of the record when it is truthy and null otherwise, the number 0 and the
\* empty string included
C23_CamposSalvoFalsy ==
  linha # Inexistente =>
    /\ linha.CODPARC = OuNull(registro.CODPARC)
    /\ linha.PROVISAO = OuNull(registro.PROVISAO)
    /\ linha.VLRDESDOB = ValidarValorNumerico(registro.VLRDESDOB, MaxDigits)
    /\ linha.DTVENC = ParseDataSankhya(registro.DTVENC)

\* an existing row was updated with a record whose CODPARC is the number 0
\* and whose amount is 0: the amount is stored, CODPARC is null
C23_Witness ==
  /\ linha # Inexistente
  /\ linha.DT_CRIACAO < linha.DT_ULT_CARGA
  /\ linha.SANKHYA_ATUAL = "S"
  /\ registro.CODPARC = Num(0, 0)
  /\ registro.VLRDESDOB = Num(0, 0)
  /\ linha.VLRDESDOB = Num(0, 0)
  /\ linha.CODPARC = Null

\* an earlier record of the snapshot with the key of the current one was
\* written by this run
JaEscrito ==
  \E i \in (1..(idx - 1)) \ errosLinha : financeiros[i] = financeiros[idx]

\* C22: the existence check reads the transaction of the run, so of the
\* records of one snapshot with the same key the first one written inserts
\* (when the key had no row) and every later one updates that row; in every
\* state, committed or inside the transaction, a (system, key) has at most
\* one row, active or not.
C22_SemDuplicataFantasma ==
  /\ [](\A s \in Systems : \A k \in Keys :
          Len(tabela[s][k]) <= 1 /\ Len(sessao[s][k]) <= 1)
  /\ [][(PassoDeUpsert /\ idx \notin errosLinha') =>
          LET s == idSistema
              k == financeiros[idx]
          IN /\ JaEscrito =>
                  /\ atualizados' = atualizados + 1
                  /\ inseridos' = inseridos
                  /\ sessao'[s][k] = <<Linha("S")>>
             /\ (~JaEscrito /\ Len(tabela0[s][k]) = 0) =>
                  /\ inseridos' = inseridos + 1
                  /\ Len(sessao[s][k]) = 0
                  /\ sessao'[s][k] = <<Linha("S")>>]_vars

\* a snapshot with the same new key twice: one insert, one update, one row
C22_Witness ==
  /\ pc = "returned"
  /\ resultado.success
  /\ Len(financeiros) = 2
  /\ financeiros[1] = financeiros[2]
  /\ Len(tabela0[idSistema][financeiros[1]]) = 0
  /\ resultado.registrosInseridos = 1
  /\ resultado.registrosAtualizados = 1
  /\ Len(tabela[idSistema][financeiros[1]]) = 1

\* the rows of the systems other than s are the same in t and in u
OutrosIguais(s, t, u) == \A s2 \in Systems \ {s} : t[s2] = u[s2]

\* C24: a run for system S, whether it commits or fails, and at every
\* step of it, leaves the rows of every other system as they were when it
\* started, in the committed table and in its own transaction.
C24_IsolamentoDeSistema ==
  /\ [](/\ OutrosIguais(idSistema, tabela0, tabela)
        /\ OutrosIguais(idSistema, tabela0, sessao))
  /\ [][EmCurso => /\ OutrosIguais(idSistema, tabela, tabela')
                    /\ OutrosIguais(idSistema, sessao, sessao')]_vars

\* a run of system 2 marked a row stale, inserted one and committed, and
\* the active rows of system 1 are as before
C24_Witness ==
  /\ pc = "returned"
  /\ idSistema = 2
  /\ resultado.success
  /\ resultado.registrosDeletados >= 1
  /\ resultado.registrosInseridos >= 1
  /\ ChavesAtivas(tabela, 1) = {1, 2}
  /\ tabela[1] = tabela0[1]

\* C25: a run that ends on the failure path returns success = false, the
\* error, and the four counts at 0 however far it got; a run that committed
\* returns success = true, no error, totalRegistros = number of decoded
\* records, and inserted + updated <= totalRegistros with equality exactly
\* when no record raised; the entry given to the Log Sink has the same
\* status, counts and error.
C25_ResultadoConsistente ==
  pc \in {"finally", "returned"} =>
    /\ IF falha # "nenhum"
         THEN /\ ~resultado.success
              /\ resultado.erro = falha
              /\ resultado.totalRegistros = 0
              /\ resultado.registrosInseridos = 0
              /\ resultado.registrosAtualizados = 0
              /\ resultado.registrosDeletados = 0
              /\ ~Commitado
         ELSE /\ resultado.success
              /\ resultado.erro = "nenhum"
              /\ Commitado
              /\ resultado.totalRegistros = Len(financeiros)
              /\ resultado.registrosInseridos = inseridos
              /\ resultado.registrosAtualizados = atualizados
              /\ resultado.registrosDeletados = registrosDeletados
              /\ inseridos + atualizados <= Len(financeiros)
              /\ (inseridos + atualizados = Len(financeiros)) <=> (errosLinha = {})
    /\ \A i \in 1..Len(logs) : logs[i] = LogEntry(StatusDe(resultado), resultado)

\* a run that marked a row stale and wrote two records, then failed at the
\* commit: its result and its log entry carry the error and only zeros
C25_Witness ==
  /\ pc = "returned"
  /\ falha = "commit"
  /\ inseridos >= 1
  /\ inseridos + atualizados = 2
  /\ registrosDeletados >= 1
  /\ resultado.registrosInseridos = 0
  /\ resultado.registrosDeletados = 0
  /\ Len(logs) = 1
  /\ logs[1].erro = "commit"
  /\ logs[1].inseridos = 0

\* the directory step of the batch driver: from the entry to the first run
PassoDiretorio == pcLote \in {"connect", "query", "close", "catch", "threw"}

C26_Estado ==
  /\ PassoDiretorio =>
       /\ pc = "idle"
       /\ iniciadas = <<>>
       /\ resultados = <<>>
  /\ (pc # "idle" \/ iniciadas # <<>>) => conexaoLote = "undefined"
  /\ conexaoLote = "open" => pcLote \in {"query", "close", "catch"}
  /\ pcLote = "threw" => conexaoLote \in {"undefined", "closed", "closeFailed"}
  /\ (pcLote = "done" /\ empresas = <<>>) =>
       /\ resultados = <<>>
       /\ iniciadas = <<>>

C26_Passo ==
  /\ (pcLote \in {"connect", "query"} /\ pcLote' # pcLote) =>
       \/ pcLote' = "catch"
       \/ pcLote = "connect" /\ pcLote' = "query" /\ conexaoLote' = "open"
       \/ pcLote = "query" /\ pcLote' = "close"
  /\ pcLote = "catch" =>
       /\ pcLote' \in {"catch", "threw"}
       /\ pc' = "idle"
       /\ (pcLote' = "threw" /\ conexaoLote = "undefined") => conexaoLote' = "undefined"
       /\ (pcLote' = "threw" /\ conexaoLote = "open") =>
            conexaoLote' \in {"closed", "closeFailed"}
  /\ (pcLote = "loop" /\ empresas = <<>> /\ pcLote' # pcLote) => pcLote' = "done"
  /\ (pc = "idle" /\ pc' # "idle") =>
       /\ pcLote = "loop"
       /\ conexaoLote = "undefined"
       /\ conexaoLote' = "undefined"

\* C26: the connection used to list the active systems is released before
\* the first run starts; an empty directory makes the driver return an
\* empty list with no run started; when acquiring the connection or the
\* listing fails the driver rethrows, starts no run and calls close() on a
\* connection it holds, which releases it unless close() itself raises.
C26_PassoDoDiretorio == []C26_Estado /\ [][C26_Passo]_vars

\* the driver rethrew after the directory step failed with the connection
\* held: the connection was released and no run was started
C26_Witness ==
  /\ pcLote = "threw"
  /\ conexaoLote = "closed"
  /\ iniciadas = <<>>
  /\ resultados = <<>>
  /\ pc = "idle"
====
